---------------------------- MODULE Spec2Model ----------------------------
(***************************************************************************)
(* Monte Carlo Tree Search of mcts_vanilla.py and mcts_modified.py:        *)
(* think() and its phases traverse_nodes, expand_leaf, rollout, is_win,    *)
(* backpropagate and get_best_action, run against a small concrete Game.   *)
(*                                                                         *)
(* The Game (p2_t3.Board) and the node class (mcts_node.MCTSNode) are not  *)
(* part of the two source files; they are modelled from the game contract  *)
(* and the data model of the specification.  The Game is a one-row         *)
(* tic-tac-toe: NumCells cells, players 1 and 2 mark empty cells in turn,  *)
(* a player who owns two adjacent cells wins, a full row without such a    *)
(* pair is a draw.  A game may have a forfeit cell: the player who marks   *)
(* it has lost, whatever else is on the row.                               *)
(***************************************************************************)
EXTENDS Integers, Sequences, FiniteSets

VARIABLES
    variant,          \* "vanilla" (mcts_vanilla.py) or "modified" (mcts_modified.py)
    use_time_budget,  \* module-level configuration of mcts_vanilla.py
    num_nodes,        \* module-level configuration: the iteration count
    term_legal,       \* the Game: does legal_actions list the empty cells of an ended state
    forfeit,          \* the Game: the forfeit cell, 0 if the game has none
    current_state,    \* think's argument
    bot_identity,     \* think's local
    tree,             \* the heap of MCTSNode objects; root_node is tree[1]
    iter,             \* iterations of think's loop completed
    node,             \* think's local: the node in hand
    state,            \* think's local, and rollout's curr_state while rollout runs
    rollout_arg,      \* rollout's parameter `state`
    won,              \* think's local
    bp,               \* backpropagate's parameter `node` in the current recursive call
    best_action,      \* think's return value
    pc,               \* position in think
    err,              \* the exception that ended think, "" if none
    iter_tree,        \* the heap as it was when the current iteration began
    iter_node,        \* the node think handed to backpropagate in the current iteration
    eval_action,      \* evaluate_heuristic's argument `action`
    eval_bot_id,      \* evaluate_heuristic's and score_macro_board's argument `bot_id`
    eval_owned,       \* score_macro_board's local `owned`
    eval_score        \* the value evaluate_heuristic or score_macro_board returned

vars == <<variant, use_time_budget, num_nodes, term_legal, forfeit, current_state,
          bot_identity, tree, iter, node, state, rollout_arg, won, bp,
          best_action, pc, err, iter_tree, iter_node,
          eval_action, eval_bot_id, eval_owned, eval_score>>

(***************************************************************************)
(* Bounds of the model.                                                    *)
(***************************************************************************)
NumCells == 4
MaxIter == 8
\* The longest budget of think on a position with two actions.
LongBudget == 36

\* Python's None, for a node reference and for an action.
None == 0

(***************************************************************************)
(* The Game collaborator (p2_t3.Board), from the game contract.            *)
(***************************************************************************)
Cells == 1..NumCells

RECURSIVE SeqOfSet(_)
SeqOfSet(S) ==
    IF S = {} THEN <<>>
    ELSE LET m == CHOOSE x \in S : \A y \in S : x <= y
         IN  <<m>> \o SeqOfSet(S \ {m})

SeqToSet(q) == {q[i] : i \in 1..Len(q)}

EmptyCells(s) == {c \in Cells : s[c] = 0}

current_player(s) ==
    IF Cardinality(Cells \ EmptyCells(s)) % 2 = 0 THEN 1 ELSE 2

HasPair(s, p) == \E c \in Cells : c + 1 \in Cells /\ s[c] = p /\ s[c + 1] = p

Winner(s) ==
    IF forfeit # 0 /\ s[forfeit] # 0 THEN 3 - s[forfeit]
    ELSE IF HasPair(s, 1) THEN 1 ELSE IF HasPair(s, 2) THEN 2 ELSE 0

is_ended(s) == Winner(s) # 0 \/ EmptyCells(s) = {}

\* A list of actions, as random.choice and list.pop need one.
legal_actions(s) ==
    IF is_ended(s) /\ ~term_legal THEN <<>> ELSE SeqOfSet(EmptyCells(s))

next_state(s, a) == [s EXCEPT ![a] = current_player(s)]

\* points_values' None: the mapping of no identity.
NoOutcome == <<>>

\* None on a state that has not ended, else identity -> 1 | -1 | 0.
points_values(s) ==
    IF ~is_ended(s) THEN NoOutcome
    ELSE LET w == Winner(s)
         IN  [p \in {1, 2} |-> IF w = 0 THEN 0 ELSE IF w = p THEN 1 ELSE -1]

\* The regions of the macro board, (row, col), and their owners: region
\* (r, c) is cell 3r + c + 1 of the row, owned by the player who marked it;
\* the regions beyond the row have no owner.
Boxes == (0..2) \X (0..2)

owned_boxes(s) ==
    [loc \in Boxes |->
        IF 3 * loc[1] + loc[2] + 1 \in Cells THEN s[3 * loc[1] + loc[2] + 1] ELSE 0]

StartingState == [c \in Cells |-> 0]

RECURSIVE PlayedFrom(_, _)
PlayedFrom(S, k) ==
    IF k = 0 THEN S
    ELSE PlayedFrom(S \cup {[s EXCEPT ![c] = current_player(s)] :
                              <<s, c>> \in {x \in S \X Cells :
                                              ~is_ended(x[1]) /\ x[1][x[2]] = 0}},
                    k - 1)

\* Every position of the game, the ended ones included.
GameStates == PlayedFrom({StartingState}, NumCells)

(***************************************************************************)
(* MCTSNode (mcts_node.py), from the data model.                           *)
(***************************************************************************)
MCTSNode(parent, parent_action, action_list) ==
    [parent |-> parent, parent_action |-> parent_action,
     child_nodes |-> <<>>, untried_actions |-> action_list,
     wins |-> 0, visits |-> 0]

\* dict[key] = value on an insertion-ordered dict, kept as a list of items.
DictSet(d, key, value) ==
    IF \E i \in 1..Len(d) : d[i].action = key
    THEN [i \in 1..Len(d) |->
             IF d[i].action = key THEN [action |-> key, node |-> value] ELSE d[i]]
    ELSE Append(d, [action |-> key, node |-> value])

DictKeys(d) == {d[i].action : i \in 1..Len(d)}

root_node == 1


(***************************************************************************)
(* Floating point, as far as ucb needs it: values are kept in units of     *)
(* 1/Scale.  LnScaled[p] is log(p) in those units, for p = 1, 2, ...       *)
(* For parent visit counts up to 38 any two ucb values of children of one  *)
(* parent compare (less, equal, greater) as the doubles of the source do.  *)
(***************************************************************************)
ScaleRoot == 1000

Scale == ScaleRoot * ScaleRoot

explore_faction == 2

LnScaled == <<0, 693147, 1098612, 1386294, 1609438, 1791759, 1945910,
              2079442, 2197225, 2302585, 2397895, 2484907, 2564949, 2639057,
              2708050, 2772589, 2833213, 2890372, 2944439, 2995732, 3044522,
              3091042, 3135494, 3178054, 3218876, 3258097, 3295837, 3332205,
              3367296, 3401197, 3433987, 3465736, 3496508, 3526361, 3555348,
              3583519, 3610918, 3637586>>

\* r * r in units of Scale, rounded down, without leaving 32 bits.
SquareScaled(r) ==
    LET hi == r \div ScaleRoot
        lo == r % ScaleRoot
    IN  hi * hi + (2 * hi * lo + (lo * lo) \div ScaleRoot) \div ScaleRoot

RECURSIVE SqrtSearch(_, _, _)
SqrtSearch(x, lo, hi) ==
    IF lo = hi THEN lo
    ELSE LET mid == (lo + hi + 1) \div 2
         IN  IF SquareScaled(mid) <= x THEN SqrtSearch(x, mid, hi)
             ELSE SqrtSearch(x, lo, mid - 1)

\* sqrt of a value below 64 given in units of 1/Scale, in units of 1/Scale.
Sqrt(x) == SqrtSearch(x, 0, 8 * Scale)

\* float('inf')
inf == 2 ^ 30

\* The value that stands for log(0) raising ValueError.
MathDomainError == -(2 ^ 30)

(***************************************************************************)
(* ucb                                                                     *)
(***************************************************************************)
\* A slip: the exploitation term is not flipped for the opponent.
ucb_no_flip(n, is_opponent) ==
    IF tree[n].visits = 0 THEN inf
    ELSE IF tree[tree[n].parent].visits = 0 THEN MathDomainError
    ELSE LET exploration ==
                 Sqrt((explore_faction * explore_faction
                         * LnScaled[tree[tree[n].parent].visits])
                      \div tree[n].visits)
             exploitation == (tree[n].wins * Scale) \div tree[n].visits
         IN  exploitation + exploration

\* A slip: no test of node.visits == 0, so the division raises.
ucb_unguarded(n, is_opponent) ==
    IF tree[n].visits = 0 THEN MathDomainError
    ELSE IF tree[tree[n].parent].visits = 0 THEN MathDomainError
    ELSE LET exploration ==
                 Sqrt((explore_faction * explore_faction
                         * LnScaled[tree[tree[n].parent].visits])
                      \div tree[n].visits)
             exploitation == (tree[n].wins * Scale) \div tree[n].visits
         IN  (IF is_opponent THEN Scale - exploitation ELSE exploitation)
               + exploration

ucb(n, is_opponent) ==
    IF tree[n].visits = 0 THEN inf
    ELSE IF tree[tree[n].parent].visits = 0 THEN MathDomainError
    ELSE LET exploration ==
                 Sqrt((explore_faction * explore_faction
                         * LnScaled[tree[tree[n].parent].visits])
                      \div tree[n].visits)
             exploitation == (tree[n].wins * Scale) \div tree[n].visits
         IN  (IF is_opponent THEN Scale - exploitation ELSE exploitation)
               + exploration

(***************************************************************************)
(* traverse_nodes                                                          *)
(***************************************************************************)
\* The for loop over current_node.child_nodes.items(), from item i on:
\* `stop` is the item the loop returned at (0: it ran to its end).
RECURSIVE ScanChildren(_, _, _, _, _)
ScanChildren(kids, i, is_opponent, highest_ucb, best) ==
    IF i > Len(kids) THEN [stop |-> 0, best |-> best, error |-> ""]
    ELSE LET child_ucb == ucb(kids[i].node, is_opponent)
         IN  IF child_ucb = MathDomainError
             THEN [stop |-> 0, best |-> best, error |-> "ValueError"]
             ELSE IF child_ucb = inf
             THEN [stop |-> i, best |-> best, error |-> ""]
             ELSE IF child_ucb > highest_ucb
             THEN ScanChildren(kids, i + 1, is_opponent, child_ucb, i)
             ELSE ScanChildren(kids, i + 1, is_opponent, highest_ucb, best)

\* A slip: the state is not advanced on the way down.
child_state_stale(s, action) == s

\* board.next_state(current_state, action): the state that goes with a child.
child_state(s, action) == next_state(s, action)

RECURSIVE traverse_nodes(_, _)
traverse_nodes(n, s) ==
    IF n = None THEN [node |-> None, state |-> s, error |-> "TypeError"]
    ELSE IF is_ended(s) THEN [node |-> n, state |-> s, error |-> ""]
    ELSE IF tree[n].untried_actions # <<>>
    THEN [node |-> n, state |-> s, error |-> ""]
    ELSE LET is_opponent == current_player(s) # bot_identity
             kids == tree[n].child_nodes
             scan == ScanChildren(kids, 1, is_opponent, -Scale, 0)
         IN  IF scan.error # ""
             THEN [node |-> None, state |-> s, error |-> scan.error]
             ELSE IF scan.stop # 0
             THEN [node |-> kids[scan.stop].node,
                   state |-> child_state(s, kids[scan.stop].action),
                   error |-> ""]
             ELSE IF scan.best = 0
             THEN traverse_nodes(None, s)
             ELSE traverse_nodes(kids[scan.best].node,
                                 child_state(s, kids[scan.best].action))

(***************************************************************************)
(* expand_leaf: the heap, the new node and its state.                      *)
(***************************************************************************)
\* A slip: the new node is not put into child_nodes.
expand_leaf_no_child(n, s) ==
    LET untried == tree[n].untried_actions
        action == untried[Len(untried)]
        new_state == next_state(s, action)
        new_node == Len(tree) + 1
    IN  [tree |-> Append([tree EXCEPT
                            ![n].untried_actions = SubSeq(untried, 1, Len(untried) - 1)],
                         MCTSNode(n, action, legal_actions(new_state))),
         node |-> new_node,
         state |-> new_state]

\* A slip: the action is read from untried_actions and left in it.
expand_leaf_no_pop(n, s) ==
    LET untried == tree[n].untried_actions
        action == untried[Len(untried)]
        new_state == next_state(s, action)
        new_node == Len(tree) + 1
    IN  [tree |-> Append([tree EXCEPT
                            ![n].child_nodes = DictSet(@, action, new_node)],
                         MCTSNode(n, action, legal_actions(new_state))),
         node |-> new_node,
         state |-> new_state]

expand_leaf(n, s) ==
    LET untried == tree[n].untried_actions
        action == untried[Len(untried)]
        new_state == next_state(s, action)
        new_node == Len(tree) + 1
    IN  [tree |-> Append([tree EXCEPT
                            ![n].untried_actions = SubSeq(untried, 1, Len(untried) - 1),
                            ![n].child_nodes = DictSet(@, action, new_node)],
                         MCTSNode(n, action, legal_actions(new_state))),
         node |-> new_node,
         state |-> new_state]

(***************************************************************************)
(* backpropagate: the two updates of one call of the recursion, on a node  *)
(* that is not None.                                                       *)
(***************************************************************************)
\* A slip: a visit counts double.
backpropagate_visit_twice(t, n) == [t EXCEPT ![n].visits = @ + 2]

\* A slip: the walk passes over a node that has no children.
backpropagate_visit_above_leaf(t, n) ==
    IF t[n].child_nodes = <<>> THEN t ELSE [t EXCEPT ![n].visits = @ + 1]

\* A slip: the walk stops below the root.
backpropagate_visit_below_root(t, n) ==
    IF t[n].parent = None THEN t ELSE [t EXCEPT ![n].visits = @ + 1]

\* node.visits += 1
backpropagate_visit(t, n) == [t EXCEPT ![n].visits = @ + 1]

\* A slip: a win counts double.
backpropagate_win_twice(t, n) == [t EXCEPT ![n].wins = @ + 2]

\* node.wins += 1
backpropagate_win(t, n) == [t EXCEPT ![n].wins = @ + 1]

(***************************************************************************)
(* get_best_action                                                         *)
(***************************************************************************)
\* The for loop from item i on; the best win rate so far is win_n / win_d.
RECURSIVE ScanBest(_, _, _, _, _)
ScanBest(kids, i, best_act, win_n, win_d) ==
    IF i > Len(kids) THEN [action |-> best_act, error |-> ""]
    ELSE LET child == tree[kids[i].node]
         IN  IF child.visits = 0
             THEN [action |-> None, error |-> "ZeroDivisionError"]
             ELSE IF child.wins * win_d > win_n * child.visits
             THEN ScanBest(kids, i + 1, kids[i].action, child.wins, child.visits)
             ELSE ScanBest(kids, i + 1, best_act, win_n, win_d)

\* A slip: the comparison is >=, so the last of the best children is taken.
RECURSIVE ScanBestLast(_, _, _, _, _)
ScanBestLast(kids, i, best_act, win_n, win_d) ==
    IF i > Len(kids) THEN [action |-> best_act, error |-> ""]
    ELSE LET child == tree[kids[i].node]
         IN  IF child.visits = 0
             THEN [action |-> None, error |-> "ZeroDivisionError"]
             ELSE IF child.wins * win_d >= win_n * child.visits
             THEN ScanBestLast(kids, i + 1, kids[i].action, child.wins, child.visits)
             ELSE ScanBestLast(kids, i + 1, best_act, win_n, win_d)

get_best_action_last(root) ==
    ScanBestLast(tree[root].child_nodes, 1, None, -1, 1)

\* A slip: best_win_rate starts at 0, so a child that never won is passed over.
get_best_action_from_zero(root) ==
    ScanBest(tree[root].child_nodes, 1, None, 0, 1)

get_best_action(root) == ScanBest(tree[root].child_nodes, 1, None, -1, 1)

(***************************************************************************)
(* is_win                                                                  *)
(***************************************************************************)
\* A slip: the lost game is the one that counts as a win.
is_win_of_loss(s, identity_of_bot) ==
    LET outcome == points_values(s)
    IN  IF outcome = NoOutcome THEN [won |-> FALSE, error |-> "AssertionError"]
        ELSE [won |-> outcome[identity_of_bot] = -1, error |-> ""]

\* A slip: a draw counts as a win.
is_win_or_draw(s, identity_of_bot) ==
    LET outcome == points_values(s)
    IN  IF outcome = NoOutcome THEN [won |-> FALSE, error |-> "AssertionError"]
        ELSE [won |-> outcome[identity_of_bot] # -1, error |-> ""]

is_win(s, identity_of_bot) ==
    LET outcome == points_values(s)
    IN  IF outcome = NoOutcome THEN [won |-> FALSE, error |-> "AssertionError"]
        ELSE [won |-> outcome[identity_of_bot] = 1, error |-> ""]

(***************************************************************************)
(* evaluate_heuristic, score_macro_board and score_micro_threats of        *)
(* mcts_modified.py.  The scores are whole numbers held in floats.         *)
(***************************************************************************)
RECURSIVE SumSeq(_)
SumSeq(q) == IF q = <<>> THEN 0 ELSE Head(q) + SumSeq(Tail(q))

\* line.count(x)
Count(line, x) == Cardinality({i \in 1..Len(line) : line[i] = x})

\* The list `lines` built from macro[r][c] = owned[(r, c)].
MacroLines(owned) ==
    [r \in 1..3 |-> <<owned[<<r - 1, 0>>], owned[<<r - 1, 1>>], owned[<<r - 1, 2>>]>>]
    \o [c \in 1..3 |-> <<owned[<<0, c - 1>>], owned[<<1, c - 1>>], owned[<<2, c - 1>>]>>]
    \o <<<<owned[<<0, 0>>], owned[<<1, 1>>], owned[<<2, 2>>]>>>>
    \o <<<<owned[<<0, 2>>], owned[<<1, 1>>], owned[<<2, 0>>]>>>>

\* A slip: a line the opponent has a region of still scores 20.
LineScore_not_open(line, bot_id) ==
    LET num_me == Count(line, bot_id)
        num_opp == Count(line, 3 - bot_id)
    IN  (IF num_me = 2 THEN 20
         ELSE IF num_opp = 0 /\ num_me = 3 THEN 100 ELSE 0)
        + (IF num_me = 0 /\ num_opp = 2 THEN -20 ELSE 0)

\* What one pass of `for line in lines` adds to score.
LineScore(line, bot_id) ==
    LET num_me == Count(line, bot_id)
        num_opp == Count(line, 3 - bot_id)
    IN  (IF num_opp = 0
         THEN IF num_me = 2 THEN 20 ELSE IF num_me = 3 THEN 100 ELSE 0
         ELSE 0)
        + (IF num_me = 0 /\ num_opp = 2 THEN -20 ELSE 0)

\* score_macro_board from `macro = ...` on, owned being board.owned_boxes(state).
score_macro_board_of(owned, bot_id) ==
    LET lines == MacroLines(owned)
    IN  SumSeq([i \in 1..Len(lines) |-> LineScore(lines[i], bot_id)])

score_macro_board(s, bot_id) == score_macro_board_of(owned_boxes(s), bot_id)

score_micro_threats(s, bot_id) == 0

\* The for loop over new_owned.
capture_score(curr_owned, new_owned, bot_id) ==
    LET locs == SeqOfSet({3 * loc[1] + loc[2] : loc \in Boxes})
        at(k) == <<k \div 3, k % 3>>
    IN  SumSeq([i \in 1..Len(locs) |->
                  IF curr_owned[at(locs[i])] = 0 /\ new_owned[at(locs[i])] = bot_id
                  THEN 50
                  ELSE IF /\ curr_owned[at(locs[i])] = 0
                          /\ new_owned[at(locs[i])] # 0
                          /\ new_owned[at(locs[i])] # bot_id
                  THEN -50
                  ELSE 0])

\* Steps 2 to 4 of evaluate_heuristic: capture, macro board, micro threats.
heuristic_terms(s, ns, bot_id) ==
    capture_score(owned_boxes(s), owned_boxes(ns), bot_id)
        + score_macro_board(ns, bot_id)
        + score_micro_threats(ns, bot_id)

\* A slip: the terms of steps 2 to 4 are added to the score of an ended game.
evaluate_heuristic_all_terms(s, a, bot_id) ==
    LET ns == next_state(s, a)
        outcome == points_values(ns)
    IN  (IF ~is_ended(ns) THEN 0
         ELSE IF outcome[bot_id] = 1 THEN 10000
         ELSE IF outcome[bot_id] = -1 THEN -10000
         ELSE 0)
        + heuristic_terms(s, ns, bot_id)

evaluate_heuristic(s, a, bot_id) ==
    LET ns == next_state(s, a)
        outcome == points_values(ns)
    IN  IF is_ended(ns)
        THEN IF outcome[bot_id] = 1 THEN 10000
             ELSE IF outcome[bot_id] = -1 THEN -10000
             ELSE 0
        ELSE heuristic_terms(s, ns, bot_id)

(***************************************************************************)
(* rollout                                                                 *)
(***************************************************************************)
\* Parameters of def evaluate_heuristic(board, state, action, bot_id), and
\* arguments of the call evaluate_heuristic(board, curr_state, act) in rollout.
evaluate_heuristic_params == 4
evaluate_heuristic_args == 3

\* The states one pass of the while loop of mcts_vanilla.rollout can move to.
vanilla_rollout_step(s) ==
    {next_state(s, a) : a \in SeqToSet(legal_actions(s))}

\* One pass of the while loop of mcts_modified.rollout: "" if it completes.
modified_rollout_step(arg) ==
    IF legal_actions(arg) # <<>>
         /\ evaluate_heuristic_args # evaluate_heuristic_params
    THEN "TypeError"
    ELSE IF legal_actions(arg) = <<>> THEN "TypeError"
    ELSE ""

(***************************************************************************)
(* think                                                                   *)
(***************************************************************************)
Variants == {"vanilla", "modified"}

\* mcts_modified.think has the counted loop only.
Init ==
    /\ forfeit = 0
    /\ current_state \in GameStates
    /\ variant \in Variants
    /\ use_time_budget \in (IF variant = "vanilla" THEN BOOLEAN ELSE {FALSE})
    /\ num_nodes \in (IF use_time_budget THEN {MaxIter} ELSE 0..MaxIter)
    /\ term_legal \in BOOLEAN
    /\ bot_identity = None
    /\ tree = <<>>
    /\ iter = 0
    /\ node = None
    /\ state = current_state
    /\ rollout_arg = current_state
    /\ won = FALSE
    /\ bp = None
    /\ best_action = None
    /\ pc = "think"
    /\ err = ""
    /\ iter_tree = <<>>
    /\ iter_node = None
    /\ eval_action = None
    /\ eval_bot_id = None
    /\ eval_owned = owned_boxes(current_state)
    /\ eval_score = 0

config ==
    <<variant, use_time_budget, num_nodes, term_legal, forfeit, current_state>>

\* What a call of evaluate_heuristic or score_macro_board on its own reads and
\* writes; think leaves it alone.
evaluation == <<eval_action, eval_bot_id, eval_owned, eval_score>>

\* bot_identity = board.current_player(current_state); root_node = MCTSNode(...)
Think ==
    /\ pc = "think"
    /\ bot_identity' = current_player(current_state)
    /\ tree' = <<MCTSNode(None, None, legal_actions(current_state))>>
    /\ iter_tree' = tree'
    /\ pc' = "loop"
    /\ UNCHANGED <<config, evaluation, iter, node, state, rollout_arg, won, bp,
                   best_action, err, iter_node>>

\* A slip: the counted loop goes round once too often.
BudgetLeft_one_more ==
    IF use_time_budget THEN iter < MaxIter ELSE iter <= num_nodes

\* The loop goes round once more: `for _ in range(num_nodes)`, or
\* `while time() - start_time < time_budget`, whose tests may go either way
\* (the first one fails when time_budget is no more than the time between
\* the two readings of the clock); the model lets the clock allow MaxIter
\* iterations.
BudgetLeft ==
    IF use_time_budget THEN iter < MaxIter ELSE iter < num_nodes

\* The loop is left: range(num_nodes) is used up, or the time test fails.
BudgetExhausted ==
    IF use_time_budget THEN TRUE ELSE ~BudgetLeft

\* state = current_state; node = root_node; traverse_nodes(...)
Select ==
    /\ pc = "loop"
    /\ BudgetLeft
    /\ LET r == traverse_nodes(root_node, current_state)
       IN  /\ node' = r.node
           /\ state' = r.state
           /\ err' = r.error
           /\ pc' = IF r.error = "" THEN "expand" ELSE "raised"
    /\ iter_tree' = tree
    /\ iter_node' = None
    /\ UNCHANGED <<config, evaluation, bot_identity, tree, iter, rollout_arg, won, bp,
                   best_action>>

\* if node != None: if node.untried_actions: expand_leaf(...); then rollout is called
Expand ==
    /\ pc = "expand"
    /\ \/ /\ node # None
          /\ tree[node].untried_actions # <<>>
          /\ LET r == expand_leaf(node, state)
             IN  /\ tree' = r.tree
                 /\ node' = r.node
                 /\ state' = r.state
                 /\ rollout_arg' = r.state
       \/ /\ ~(node # None /\ tree[node].untried_actions # <<>>)
          /\ rollout_arg' = state
          /\ UNCHANGED <<tree, node, state>>
    /\ pc' = "rollout"
    /\ UNCHANGED <<config, evaluation, bot_identity, iter, won, bp, best_action, err,
                   iter_tree, iter_node>>

\* One test of `while not board.is_ended(curr_state)` and, if it passes, one
\* pass of the loop body.
Rollout ==
    /\ pc = "rollout"
    /\ \/ /\ is_ended(state)
          /\ pc' = "is_win"
          /\ UNCHANGED <<state, err>>
       \/ /\ ~is_ended(state)
          /\ variant = "vanilla"
          /\ IF legal_actions(state) = <<>>
             THEN /\ pc' = "raised"
                  /\ err' = "IndexError"
                  /\ UNCHANGED state
             ELSE /\ state' \in vanilla_rollout_step(state)
                  /\ UNCHANGED <<pc, err>>
       \/ /\ ~is_ended(state)
          /\ variant = "modified"
          /\ modified_rollout_step(rollout_arg) # ""
          /\ pc' = "raised"
          /\ err' = modified_rollout_step(rollout_arg)
          /\ UNCHANGED state
    /\ UNCHANGED <<config, evaluation, bot_identity, tree, iter, node, rollout_arg, won,
                   bp, best_action, iter_tree, iter_node>>

\* won = is_win(board, state, bot_identity); backpropagate(node, won) is called
IsWin ==
    /\ pc = "is_win"
    /\ LET r == is_win(state, bot_identity)
       IN  /\ won' = r.won
           /\ err' = r.error
           /\ pc' = IF r.error = "" THEN "backpropagate" ELSE "raised"
    /\ bp' = node
    /\ iter_node' = node
    /\ UNCHANGED <<config, evaluation, bot_identity, tree, iter, node, state,
                   rollout_arg, best_action, iter_tree>>

\* One call of backpropagate, in two steps when won: on None it returns and
\* the iteration is over; else node.visits += 1, then node.wins += 1 if won,
\* and the call on node.parent follows.
Backpropagate ==
    /\ \/ /\ pc = "backpropagate"
          /\ bp = None
          /\ iter' = iter + 1
          /\ pc' = "loop"
          /\ UNCHANGED <<tree, bp>>
       \/ /\ pc = "backpropagate"
          /\ bp # None
          /\ tree' = backpropagate_visit(tree, bp)
          /\ IF won
             THEN pc' = "backpropagate_won" /\ UNCHANGED bp
             ELSE bp' = tree[bp].parent /\ UNCHANGED pc
          /\ UNCHANGED iter
       \/ /\ pc = "backpropagate_won"
          /\ tree' = backpropagate_win(tree, bp)
          /\ bp' = tree[bp].parent
          /\ pc' = "backpropagate"
          /\ UNCHANGED iter
    /\ UNCHANGED <<config, evaluation, bot_identity, node, state, rollout_arg, won,
                   best_action, err, iter_tree, iter_node>>

\* best_action = get_best_action(root_node); return best_action
Return ==
    /\ pc = "loop"
    /\ BudgetExhausted
    /\ LET r == get_best_action(root_node)
       IN  /\ best_action' = r.action
           /\ err' = r.error
           /\ pc' = IF r.error = "" THEN "done" ELSE "raised"
    /\ UNCHANGED <<config, evaluation, bot_identity, tree, iter, node, state,
                   rollout_arg, won, bp, iter_tree, iter_node>>

Next == Think \/ Select \/ Expand \/ Rollout \/ IsWin \/ Backpropagate \/ Return

Spec == Init /\ [][Next]_vars

(***************************************************************************)
(* think on a position with two legal actions, one that ends the game won  *)
(* for the player to move and one that ends it lost, under the counted     *)
(* loop with budgets up to LongBudget.  The forfeit cell is the first or   *)
(* the last cell, which puts the losing action first or last in the list   *)
(* of legal actions.                                                       *)
(***************************************************************************)
WinsAtOnce(s, a) ==
    LET outcome == points_values(next_state(s, a))
    IN  outcome # NoOutcome /\ outcome[current_player(s)] = 1

LosesAtOnce(s, a) ==
    LET outcome == points_values(next_state(s, a))
    IN  outcome # NoOutcome /\ outcome[current_player(s)] = -1

TwoActionPosition(s) ==
    /\ ~is_ended(s)
    /\ Len(legal_actions(s)) = 2
    /\ \E a, b \in SeqToSet(legal_actions(s)) :
           WinsAtOnce(s, a) /\ LosesAtOnce(s, b)

InitTwoActions ==
    /\ forfeit \in {1, NumCells}
    /\ term_legal \in BOOLEAN
    /\ current_state \in {s \in GameStates : TwoActionPosition(s)}
    /\ variant \in Variants
    /\ use_time_budget = FALSE
    /\ num_nodes \in 0..LongBudget
    /\ bot_identity = None
    /\ tree = <<>>
    /\ iter = 0
    /\ node = None
    /\ state = current_state
    /\ rollout_arg = current_state
    /\ won = FALSE
    /\ bp = None
    /\ best_action = None
    /\ pc = "think"
    /\ err = ""
    /\ iter_tree = <<>>
    /\ iter_node = None
    /\ eval_action = None
    /\ eval_bot_id = None
    /\ eval_owned = owned_boxes(current_state)
    /\ eval_score = 0

SpecTwoActions == InitTwoActions /\ [][Next]_vars

(***************************************************************************)
(* A call of evaluate_heuristic on its own: on every position of the game, *)
(* with and without a forfeit cell, every action that is legal in it and   *)
(* both evaluating identities.                                             *)
(***************************************************************************)
InitHeuristic ==
    /\ forfeit \in {0, 1, NumCells}
    /\ current_state \in GameStates
    /\ variant = "modified"
    /\ use_time_budget = FALSE
    /\ num_nodes = 0
    /\ term_legal \in BOOLEAN
    /\ bot_identity = None
    /\ tree = <<>>
    /\ iter = 0
    /\ node = None
    /\ state = current_state
    /\ rollout_arg = current_state
    /\ won = FALSE
    /\ bp = None
    /\ best_action = None
    /\ pc = "evaluate_heuristic"
    /\ err = ""
    /\ iter_tree = <<>>
    /\ iter_node = None
    /\ eval_action \in SeqToSet(legal_actions(current_state))
    /\ eval_bot_id \in {1, 2}
    /\ eval_owned = owned_boxes(current_state)
    /\ eval_score = 0

\* evaluate_heuristic(board, state, action, bot_id) runs and returns.
EvaluateHeuristic ==
    /\ pc = "evaluate_heuristic"
    /\ eval_score' = evaluate_heuristic(state, eval_action, eval_bot_id)
    /\ pc' = "returned"
    /\ UNCHANGED <<config, bot_identity, tree, iter, node, state, rollout_arg,
                   won, bp, best_action, err, iter_tree, iter_node,
                   eval_action, eval_bot_id, eval_owned>>

SpecHeuristic == InitHeuristic /\ [][EvaluateHeuristic]_vars

(***************************************************************************)
(* A call of score_macro_board on its own: board.owned_boxes(state) may    *)
(* answer with any owners of the nine regions.                             *)
(***************************************************************************)
InitMacro ==
    /\ variant = "modified"
    /\ use_time_budget = FALSE
    /\ num_nodes = 0
    /\ term_legal = FALSE
    /\ forfeit = 0
    /\ current_state = StartingState
    /\ bot_identity = None
    /\ tree = <<>>
    /\ iter = 0
    /\ node = None
    /\ state = current_state
    /\ rollout_arg = current_state
    /\ won = FALSE
    /\ bp = None
    /\ best_action = None
    /\ pc = "score_macro_board"
    /\ err = ""
    /\ iter_tree = <<>>
    /\ iter_node = None
    /\ eval_action = None
    /\ eval_bot_id \in {1, 2}
    /\ eval_owned \in [Boxes -> 0..2]
    /\ eval_score = 0

\* score_macro_board(board, state, bot_id) runs and returns.
ScoreMacroBoard ==
    /\ pc = "score_macro_board"
    /\ eval_score' = score_macro_board_of(eval_owned, eval_bot_id)
    /\ pc' = "scored"
    /\ UNCHANGED <<config, bot_identity, tree, iter, node, state, rollout_arg,
                   won, bp, best_action, err, iter_tree, iter_node,
                   eval_action, eval_bot_id, eval_owned>>

SpecMacro == InitMacro /\ [][ScoreMacroBoard]_vars

(***************************************************************************)
(* A call of traverse_nodes on its own, on a node of a state that has not  *)
(* ended, with all its actions tried and its children as expand_leaf       *)
(* makes them (in the order it pops the actions): leaves, which           *)
(* backpropagate has passed not yet, or once with a loss or with a win.    *)
(* The node has the visits of its children, and one more when it was once  *)
(* the end of a playout itself.  bot_identity is either player, as the     *)
(* node may lie anywhere in the tree of the bot.  traverse_nodes is the    *)
(* same in both files.                                                     *)
(***************************************************************************)
\* <<visits, wins>> of a child.
ChildCounts == {<<0, 0>>, <<1, 0>>, <<1, 1>>}

\* The tree of the node (tree[1]) and its children (tree[2], ...): counts[i]
\* is <<visits, wins>> of the i-th child, own the visits of the node itself.
TreeOfChildren(s, counts, own) ==
    LET actions == legal_actions(s)
        k == Len(actions)
        action(i) == actions[k + 1 - i]
    IN  <<[parent |-> None, parent_action |-> None,
           child_nodes |-> [i \in 1..k |-> [action |-> action(i), node |-> i + 1]],
           untried_actions |-> <<>>,
           wins |-> SumSeq([i \in 1..k |-> counts[i][2]]),
           visits |-> own + SumSeq([i \in 1..k |-> counts[i][1]])]>>
        \o [i \in 1..k |->
              [parent |-> root_node, parent_action |-> action(i),
               child_nodes |-> <<>>,
               untried_actions |-> legal_actions(next_state(s, action(i))),
               wins |-> counts[i][2], visits |-> counts[i][1]]]

InitSelect ==
    /\ forfeit = 0
    /\ current_state \in {s \in GameStates : ~is_ended(s)}
    /\ variant = "vanilla"
    /\ use_time_budget = FALSE
    /\ num_nodes = 1
    /\ term_legal \in BOOLEAN
    /\ bot_identity \in {1, 2}
    /\ tree \in {TreeOfChildren(current_state, counts, own) :
                    counts \in [1..Len(legal_actions(current_state)) -> ChildCounts],
                    own \in 0..1}
    /\ iter = 0
    /\ node = None
    /\ state = current_state
    /\ rollout_arg = current_state
    /\ won = FALSE
    /\ bp = None
    /\ best_action = None
    /\ pc = "loop"
    /\ err = ""
    /\ iter_tree = tree
    /\ iter_node = None
    /\ eval_action = None
    /\ eval_bot_id = None
    /\ eval_owned = owned_boxes(current_state)
    /\ eval_score = 0

SpecSelect == InitSelect /\ [][Select]_vars

(***************************************************************************)
(* Notions the properties are stated in.                                   *)
(***************************************************************************)
Nodes(t) == 1..Len(t)

\* n and its ancestors, following parent references.
RECURSIVE PathToRoot(_, _)
PathToRoot(t, n) ==
    IF n = None THEN {} ELSE {n} \cup PathToRoot(t, t[n].parent)

\* The game state of a node: current_state with the parent_action labels from
\* the root down to the node applied in order.
RECURSIVE StateOf(_, _)
StateOf(t, n) ==
    IF t[n].parent = None THEN current_state
    ELSE next_state(StateOf(t, t[n].parent), t[n].parent_action)

\* think has gone through get_best_action.
BestActionTaken == pc = "done" \/ (pc = "raised" /\ err = "ZeroDivisionError")

\* An iteration of the loop has just been completed.
IterationDone == pc \in {"loop", "done"} /\ iter >= 1

(***************************************************************************)
(* C1: on a current_state that has not ended, think raises nothing and     *)
(* returns an action that is legal in current_state (so never None),       *)
(* in either file (stated for the budgets of at least one iteration).      *)
(***************************************************************************)
C1_ThinkReturnsLegalAction ==
    ~is_ended(current_state) =>
        /\ pc # "raised"
        /\ (pc = "done" /\ iter >= 1) =>
               best_action \in SeqToSet(legal_actions(current_state))

(***************************************************************************)
(* C2: when the loop has ended and the root has a child, get_best_action   *)
(* divides by no zero visit count and returns a key of root.child_nodes.   *)
(***************************************************************************)
C2_BestActionIsRootChild ==
    /\ err # "ZeroDivisionError"
    /\ (pc = "done" /\ tree[root_node].child_nodes # <<>>) =>
           best_action \in DictKeys(tree[root_node].child_nodes)

\* think has returned after a single iteration that expanded the root.
C2_Witness ==
    /\ pc = "done"
    /\ iter = 1
    /\ Len(tree[root_node].child_nodes) = 1
    /\ best_action = tree[root_node].child_nodes[1].action

(***************************************************************************)
(* C3: on a current_state that has ended, think completes no iteration of  *)
(* its loop (no Select, Simulate, Backpropagate on the ended root).        *)
(***************************************************************************)
C3_EndedRootIsNotSearched ==
    is_ended(current_state) => iter = 0

(***************************************************************************)
(* C4: no node whose game state has ended has a child (stated for the      *)
(* calls of think on a current_state that has not ended).                  *)
(***************************************************************************)
C4_NoChildUnderEndedNode ==
    ~is_ended(current_state) =>
        \A n \in Nodes(tree) :
            is_ended(StateOf(tree, n)) => tree[n].child_nodes = <<>>

(***************************************************************************)
(* C5: what traverse_nodes(root_node, current_state) returns is a node at  *)
(* or below the root, with the game state its parent_action labels lead to *)
(* from current_state, and the node is ended or has an untried action.     *)
(***************************************************************************)
C5_TraverseReturnsLeaf ==
    pc = "expand" =>
        /\ node \in Nodes(tree)
        /\ root_node \in PathToRoot(tree, node)
        /\ state = StateOf(tree, node)
        /\ is_ended(state) \/ tree[node].untried_actions # <<>>

\* traverse_nodes went down two levels by ucb to a node with untried actions.
C5_Witness ==
    /\ pc = "expand"
    /\ node # None
    /\ Cardinality(PathToRoot(tree, node)) >= 3
    /\ ~is_ended(state)
    /\ tree[node].untried_actions # <<>>

(***************************************************************************)
(* C6: a step of rollout raises nothing, changes no node of the tree, and  *)
(* either returns with a state that has ended or moves curr_state by an    *)
(* action that is legal in it; in mcts_vanilla and in mcts_modified.       *)
(***************************************************************************)
C6_RolloutPlaysToTheEnd ==
    [][pc = "rollout" =>
          /\ pc' \in {"rollout", "is_win"}
          /\ tree' = tree
          /\ pc' = "is_win" => (state' = state /\ is_ended(state))
          /\ pc' = "rollout" =>
                 \E a \in SeqToSet(legal_actions(state)) :
                     state' = next_state(state, a)]_vars

(***************************************************************************)
(* C7: when an iteration is complete, visits is one more than before the   *)
(* iteration at the node handed to backpropagate (the node think holds     *)
(* after selection and expansion) and at each of its ancestors up to the   *)
(* root, and visits and wins of every other node are as before.            *)
(***************************************************************************)
\* visits and wins of node n before the iteration (0 for a node made in it).
Before(n) ==
    IF n \in Nodes(iter_tree) THEN iter_tree[n] ELSE [visits |-> 0, wins |-> 0]

C7_VisitsOnThePath ==
    IterationDone =>
        /\ iter_node = node
        /\ node \in Nodes(tree)
        /\ root_node \in PathToRoot(tree, node)
        /\ \A n \in Nodes(tree) :
               IF n \in PathToRoot(tree, node)
               THEN tree[n].visits = Before(n).visits + 1
               ELSE /\ tree[n].visits = Before(n).visits
                    /\ tree[n].wins = Before(n).wins

\* An iteration ended that backpropagated from a grandchild of the root, in
\* a tree that has nodes off that path.
C7_Witness ==
    /\ IterationDone
    /\ pc = "loop"
    /\ node # None
    /\ Cardinality(PathToRoot(tree, node)) >= 3
    /\ \E n \in Nodes(iter_tree) :
           n \notin PathToRoot(tree, node) /\ tree[n].visits >= 1

(***************************************************************************)
(* C8: when an iteration is complete, wins is one more than before at      *)
(* every node from the node handed to backpropagate up to the root if the  *)
(* state the rollout ended in gives the bot 1 point, and is as before at   *)
(* every one of them otherwise (a loss or a draw), whoever is to move at   *)
(* the node.                                                               *)
(***************************************************************************)
C8_WinsOnThePath ==
    IterationDone =>
        /\ is_ended(state)
        /\ \A n \in PathToRoot(tree, node) :
               tree[n].wins = Before(n).wins
                   + (IF points_values(state)[bot_identity] = 1 THEN 1 ELSE 0)

\* An iteration ended in a win of the bot; its path holds a node where the
\* bot moves that has seen a game not won, and one where the opponent moves.
C8_Witness ==
    /\ IterationDone
    /\ pc = "loop"
    /\ points_values(state)[bot_identity] = 1
    /\ \E m, n \in PathToRoot(tree, node) :
           /\ current_player(StateOf(tree, m)) = bot_identity
           /\ current_player(StateOf(tree, n)) # bot_identity
           /\ tree[m].wins < tree[m].visits
           /\ tree[n].wins >= 1

(***************************************************************************)
(* C9: a call of expand_leaf on a node takes exactly one action out of the *)
(* node's untried_actions and puts exactly one child in under that action, *)
(* with parent the node, parent_action the action and untried_actions the  *)
(* legal actions of the state the action leads to; no step of think puts   *)
(* an action back into a node's untried_actions, and no node has two       *)
(* children made by the same action.                                       *)
(***************************************************************************)
ExpandedBy(t, n, a) ==
    {m \in Nodes(t) : t[m].parent = n /\ t[m].parent_action = a}

C9_ExpandStep ==
    (pc = "expand" /\ node # None /\ tree[node].untried_actions # <<>>) =>
        \E a \in SeqToSet(tree[node].untried_actions) :
            /\ Len(tree') = Len(tree) + 1
            /\ Len(tree'[node].untried_actions)
                   = Len(tree[node].untried_actions) - 1
            /\ SeqToSet(tree'[node].untried_actions)
                   = SeqToSet(tree[node].untried_actions) \ {a}
            /\ tree'[node].child_nodes
                   = Append(tree[node].child_nodes,
                            [action |-> a, node |-> Len(tree')])
            /\ tree'[Len(tree')].parent = node
            /\ tree'[Len(tree')].parent_action = a
            /\ tree'[Len(tree')].untried_actions
                   = legal_actions(next_state(StateOf(tree, node), a))
            /\ tree'[Len(tree')].child_nodes = <<>>
            /\ \A n \in Nodes(tree) \ {node} : tree'[n] = tree[n]

C9_NothingPutBack ==
    \A n \in Nodes(tree) :
        /\ n \in Nodes(tree')
        /\ SeqToSet(tree'[n].untried_actions)
               \subseteq SeqToSet(tree[n].untried_actions)
        /\ DictKeys(tree[n].child_nodes) \subseteq DictKeys(tree'[n].child_nodes)

C9_ExpandedOnce ==
    \A n \in Nodes(tree) :
        /\ DictKeys(tree[n].child_nodes)
               \cap SeqToSet(tree[n].untried_actions) = {}
        /\ \A a \in Cells : Cardinality(ExpandedBy(tree, n, a)) <= 1
        /\ \A i \in 1..Len(tree[n].child_nodes) :
               ExpandedBy(tree, n, tree[n].child_nodes[i].action)
                   = {tree[n].child_nodes[i].node}

C9_ExpandLeaf ==
    /\ []C9_ExpandedOnce
    /\ [][C9_ExpandStep /\ C9_NothingPutBack]_vars

\* expand_leaf has just added a second child to a node that keeps an untried
\* action.
C9_Witness ==
    /\ pc = "rollout"
    /\ Len(tree) = Len(iter_tree) + 1
    /\ tree[node].parent # None
    /\ Len(tree[tree[node].parent].child_nodes) >= 2
    /\ tree[tree[node].parent].untried_actions # <<>>

(***************************************************************************)
(* C10: with the counted loop, get_best_action runs after exactly          *)
(* num_nodes complete iterations, and root.visits is num_nodes then.       *)
(***************************************************************************)
C10_CountedLoop ==
    (BestActionTaken /\ ~use_time_budget) =>
        /\ iter = num_nodes
        /\ tree[root_node].visits = num_nodes

\* think has returned from a counted loop of several iterations.
C10_Witness ==
    /\ pc = "done"
    /\ ~use_time_budget
    /\ num_nodes >= 3
    /\ tree[root_node].visits = num_nodes

(***************************************************************************)
(* C11: when current_state has exactly one legal action and that action    *)
(* ends the game in a win of the player to move, think returns that        *)
(* action, whatever the budget.                                            *)
(***************************************************************************)
\* current_state has one legal action, and it wins the game for the mover.
OneWinningAction ==
    /\ ~is_ended(current_state)
    /\ Len(legal_actions(current_state)) = 1
    /\ LET next == next_state(current_state, legal_actions(current_state)[1])
       IN  /\ is_ended(next)
           /\ points_values(next)[current_player(current_state)] = 1

C12_WinningActionReturned ==
    (TwoActionPosition(current_state) /\ ~use_time_budget /\ num_nodes >= 2)
        => /\ pc # "raised"
           /\ pc = "done" => WinsAtOnce(current_state, best_action)

\* C12: think has returned the winning action after LongBudget iterations on
\* a position that lists the losing action first, and has tried the losing
\* action more than once on the way.
C12_Witness ==
    /\ TwoActionPosition(current_state)
    /\ pc = "done"
    /\ num_nodes = LongBudget
    /\ iter = LongBudget
    /\ LosesAtOnce(current_state, legal_actions(current_state)[1])
    /\ WinsAtOnce(current_state, best_action)
    /\ \E i \in 1..Len(tree[root_node].child_nodes) :
           /\ LosesAtOnce(current_state, tree[root_node].child_nodes[i].action)
           /\ tree[tree[root_node].child_nodes[i].node].visits >= 2

(***************************************************************************)
(* C13: the action get_best_action returns is the action of a root child   *)
(* whose win rate wins / visits is the largest among the root children,    *)
(* and of the first such child in the order of child_nodes.  Win rates     *)
(* are compared as fractions.                                              *)
(***************************************************************************)
RootChildren == tree[root_node].child_nodes

\* The win rate of the i-th root child is below that of the j-th.
RateBelow(i, j) ==
    tree[RootChildren[i].node].wins * tree[RootChildren[j].node].visits
        < tree[RootChildren[j].node].wins * tree[RootChildren[i].node].visits

GreedyAction(s, id) ==
    LET actions == legal_actions(s)
        first == CHOOSE i \in 1..Len(actions) :
                    /\ \A j \in 1..Len(actions) :
                           evaluate_heuristic(s, actions[j], id)
                               <= evaluate_heuristic(s, actions[i], id)
                    /\ \A j \in 1..(i - 1) :
                           evaluate_heuristic(s, actions[j], id)
                               < evaluate_heuristic(s, actions[i], id)
    IN  actions[first]

C14_GreedyRolloutStep ==
    [][(pc = "rollout" /\ variant = "modified" /\ ~is_ended(state))
          => /\ pc' = "rollout"
             /\ \E id \in {1, 2} :
                    state' = next_state(state, GreedyAction(state, id))]_vars

(***************************************************************************)
(* C15: evaluate_heuristic on an action that ends the game returns 10000   *)
(* if the game is won for the evaluating identity, -10000 if it is lost    *)
(* for it and 0 if it is a draw: nothing of the capture and macro board    *)
(* terms is in the value.                                                  *)
(***************************************************************************)
C15_EndedGameScores ==
    (pc = "returned" /\ is_ended(next_state(state, eval_action)))
        => LET outcome == points_values(next_state(state, eval_action))
           IN  /\ outcome[eval_bot_id] = 1 => eval_score = 10000
               /\ outcome[eval_bot_id] = -1 => eval_score = -10000
               /\ outcome[eval_bot_id] = 0 => eval_score = 0

\* C15: evaluate_heuristic has returned 0 for an action that ends the game
\* in a draw, where the capture and macro board terms are not 0.
C15_Witness ==
    /\ pc = "returned"
    /\ is_ended(next_state(state, eval_action))
    /\ points_values(next_state(state, eval_action))[eval_bot_id] = 0
    /\ eval_score = 0
    /\ heuristic_terms(state, next_state(state, eval_action), eval_bot_id) # 0

(***************************************************************************)
(* C16: score_macro_board is the sum, over the three rows, the three       *)
(* columns and the two diagonals of the grid of owners, of 20 for a line   *)
(* with two regions of the evaluating identity and none of the opponent,   *)
(* 100 for a line with three regions of the identity, -20 for a line with  *)
(* two regions of the opponent and none of the identity, 0 for any other.  *)
(***************************************************************************)
LinesOfBoard ==
    {{<<r, c>> : c \in 0..2} : r \in 0..2}
        \cup {{<<r, c>> : r \in 0..2} : c \in 0..2}
        \cup {{<<k, k>> : k \in 0..2}, {<<k, 2 - k>> : k \in 0..2}}

Owned(line, p) == Cardinality({loc \in line : eval_owned[loc] = p})

LineValue(line) ==
    LET mine == Owned(line, eval_bot_id)
        theirs == Owned(line, 3 - eval_bot_id)
    IN  IF mine = 2 /\ theirs = 0 THEN 20
        ELSE IF mine = 3 THEN 100
        ELSE IF mine = 0 /\ theirs = 2 THEN -20
        ELSE 0

RECURSIVE SumOfLines(_)
SumOfLines(lines) ==
    IF lines = {} THEN 0
    ELSE LET line == CHOOSE l \in lines : TRUE
         IN  LineValue(line) + SumOfLines(lines \ {line})

C16_MacroScoreIsSumOfLines ==
    pc = "scored" => eval_score = SumOfLines(LinesOfBoard)

\* C16: score_macro_board has returned for a grid that has a line of each of
\* the three kinds that count.
C16_Witness ==
    /\ pc = "scored"
    /\ \A v \in {20, 100, -20} : \E line \in LinesOfBoard : LineValue(line) = v
    /\ eval_score = SumOfLines(LinesOfBoard)

(***************************************************************************)
(* C17: in every state of a think call, between the phases of an iteration *)
(* and between the two updates of a call of backpropagate included, every  *)
(* node of the tree has 0 <= wins <= visits.                               *)
(***************************************************************************)
C17_WinsWithinVisits ==
    \A n \in Nodes(tree) : 0 <= tree[n].wins /\ tree[n].wins <= tree[n].visits

\* C17: backpropagate has added the visit of a won playout to a node that had
\* as many wins as visits and at least one, and has not added the win yet,
\* while the node's parent has neither.
C17_Witness ==
    /\ pc = "backpropagate_won"
    /\ tree[bp].wins >= 1
    /\ tree[bp].visits = tree[bp].wins + 1
    /\ tree[bp].parent # None
    /\ tree[tree[bp].parent].visits = iter_tree[tree[bp].parent].visits
    /\ C17_WinsWithinVisits

(***************************************************************************)
(* C18: ucb is +infinity for a node with no visits, and traverse_nodes on  *)
(* a node of a state that has not ended, with all actions tried and a      *)
(* child with no visits, returns the first child with no visits in the     *)
(* order of child_nodes, with the state that child's action leads to.      *)
(***************************************************************************)
Unvisited(i) == tree[RootChildren[i].node].visits = 0

C18_FirstUnvisitedChild ==
    /\ \A n \in Nodes(tree) :
           tree[n].visits = 0 => ucb(n, TRUE) = inf /\ ucb(n, FALSE) = inf
    /\ (pc # "loop" /\ \E i \in 1..Len(RootChildren) : Unvisited(i))
          => \E i \in 1..Len(RootChildren) :
                /\ Unvisited(i)
                /\ \A j \in 1..(i - 1) : ~Unvisited(j)
                /\ pc = "expand"
                /\ node = RootChildren[i].node
                /\ state = next_state(current_state, RootChildren[i].action)

\* C18: traverse_nodes has returned the second child, the first one without
\* visits, and passed over a first child with a visit and a later child
\* without one.
C18_Witness ==
    /\ pc = "expand"
    /\ Len(RootChildren) >= 3
    /\ ~Unvisited(1) /\ Unvisited(2) /\ Unvisited(3)
    /\ node = RootChildren[2].node
    /\ state = next_state(current_state, RootChildren[2].action)

(***************************************************************************)
(* C19: where traverse_nodes went down through a node whose children all   *)
(* have the same number of visits, at least one, it went to the child with *)
(* the most wins if the bot is to move in the state of the node, and to    *)
(* the child with the fewest wins if the opponent is; to the first such    *)
(* child in the order of child_nodes.                                      *)
(***************************************************************************)
EqualVisits(n) ==
    LET kids == tree[n].child_nodes
    IN  /\ kids # <<>>
        /\ \A i \in 1..Len(kids) :
               /\ tree[kids[i].node].visits >= 1
               /\ tree[kids[i].node].visits = tree[kids[1].node].visits

BotToMove(n) == current_player(StateOf(tree, n)) = bot_identity

\* The i-th child of n is a better choice than the j-th: more wins for the
\* bot, fewer for the opponent.
Better(n, i, j) ==
    LET kids == tree[n].child_nodes
    IN  IF BotToMove(n)
        THEN tree[kids[i].node].wins > tree[kids[j].node].wins
        ELSE tree[kids[i].node].wins < tree[kids[j].node].wins

PreferredChild(n) ==
    LET kids == tree[n].child_nodes
        first == CHOOSE i \in 1..Len(kids) :
                    /\ \A j \in 1..Len(kids) : ~Better(n, j, i)
                    /\ \A j \in 1..(i - 1) : Better(n, i, j)
    IN  kids[first].node

\* The nodes traverse_nodes went down through, once it has returned `node`.
WentThrough == PathToRoot(tree, node) \ {node}

C19_EqualVisitsDecidedByWins ==
    (pc = "expand" /\ node # None)
        => \A n \in WentThrough :
              EqualVisits(n) => PreferredChild(n) \in PathToRoot(tree, node)

\* C19: traverse_nodes went down through a node with the opponent to move
\* and children of equal visits, to a child with fewer wins than another
\* child of that node.
C19_Witness ==
    /\ pc = "expand"
    /\ node # None
    /\ \E n \in WentThrough :
           /\ EqualVisits(n)
           /\ ~BotToMove(n)
           /\ PreferredChild(n) \in PathToRoot(tree, node)
           /\ \E j \in 1..Len(tree[n].child_nodes) :
                  tree[tree[n].child_nodes[j].node].wins
                      > tree[PreferredChild(n)].wins

(***************************************************************************)
(* C20: before the first iteration, between iterations and when            *)
(* get_best_action runs, every node but the root has at least one visit:   *)
(* ucb is +infinity for no child, so traverse_nodes does not take its      *)
(* branch for it, and no division by visits raises.                        *)
(***************************************************************************)
C20_ChildrenVisitedAtBoundaries ==
    /\ err # "ZeroDivisionError"
    /\ (pc \in {"loop", "done"})
          => \A n \in Nodes(tree) \ {root_node} :
                /\ tree[n].visits >= 1
                /\ ucb(n, TRUE) # inf /\ ucb(n, FALSE) # inf

\* C20: between two iterations, the node the last iteration made lies below
\* a child of the root and has its visit.
C20_Witness ==
    /\ pc = "loop"
    /\ iter >= 2
    /\ BudgetLeft
    /\ Len(tree) >= 3
    /\ Len(tree) = Len(iter_tree) + 1
    /\ tree[Len(tree)].parent # root_node
    /\ tree[Len(tree)].visits = 1

(***************************************************************************)
(* C21: before the first iteration, between iterations and when            *)
(* get_best_action runs, the visits of the root are the iterations         *)
(* completed in this call and no node has more visits than its parent; so  *)
(* the parent of a node with a visit has one, log(node.parent.visits) in   *)
(* ucb is defined and not negative, and think never ends in the ValueError *)
(* of log(0).                                                              *)
(***************************************************************************)
C21_RootVisitsAreIterations ==
    /\ err # "ValueError"
    /\ (pc \in {"loop", "done"})
          => /\ tree[root_node].visits = iter
             /\ \A n \in Nodes(tree) \ {root_node} :
                    /\ tree[n].visits <= tree[tree[n].parent].visits
                    /\ tree[n].visits >= 1
                          => /\ tree[tree[n].parent].visits >= 1
                             /\ LnScaled[tree[tree[n].parent].visits] >= 0

\* C21: between two iterations, after three or more of them, a node two
\* levels below the root has a visit and fewer visits than its parent, which
\* has fewer than the root.
C21_Witness ==
    /\ pc = "loop"
    /\ BudgetLeft
    /\ iter >= 3
    /\ tree[root_node].visits = iter
    /\ \E n \in Nodes(tree) \ {root_node} :
           /\ tree[n].parent # root_node
           /\ tree[n].visits >= 1
           /\ tree[n].visits < tree[tree[n].parent].visits
           /\ tree[tree[n].parent].visits < tree[root_node].visits

=============================================================================
